---- MODULE Spec2Model ----
(***************************************************************************)
(* Pod Watcher: the watcher thread (watch_pods) that keeps the pod_map     *)
(* index in step with the platform's list/watch API, and the Flask request *)
(* handlers (/health, /ready, /pod, /pods) that read it, sharing           *)
(* pod_map_lock.                                                           *)
(***************************************************************************)
EXTENDS Integers, Sequences, FiniteSets, TLC

(* ------------------------------ bounds -------------------------------- *)

\* longest listing the one-shot list call returns
MaxList == 2

\* seconds of time.sleep in the except branch of the watch loop
BackoffSeconds == 5

(* ------------------------------ values -------------------------------- *)

NoneVal == "None"

A1 == "10.0.0.1"
A2 == "10.0.0.2"

\* Python truthiness of an optional string: None and "" are falsy
Truthy(s) == s \notin {NoneVal, ""}

\* A V1Pod as delivered by the client library.  hasMetadata / hasSpec /
\* hasStatus say whether pod.metadata / pod.spec / pod.status is an object
\* (FALSE: the attribute is None and any access through it raises).
MkPod(uid, ns, ip, phase, labels) ==
    [hasMetadata |-> TRUE, hasSpec |-> TRUE, hasStatus |-> TRUE,
     name |-> uid, namespace |-> ns, uid |-> uid, labels |-> labels,
     node_name |-> "node", phase |-> phase, pod_ip |-> ip]

WellFormedPods ==
    { MkPod("u1", "n1", A1, "Pending", NoneVal),
      MkPod("u1", "n1", A1, "Running", "{app}"),
      MkPod("u1", "n1", A2, "Running", "{app}"),
      MkPod("u1", "n1", NoneVal, "Pending", NoneVal),
      MkPod("u1", "n1", "", "Pending", NoneVal),
      MkPod("u2", "n2", A1, "Running", NoneVal),
      MkPod("u2", "n1", A2, "Running", NoneVal) }

MalformedPods ==
    { [MkPod("u2", "n2", A2, "Running", NoneVal) EXCEPT !.hasSpec = FALSE],
      [MkPod("u2", "n2", A1, "Running", NoneVal) EXCEPT !.hasMetadata = FALSE],
      [MkPod("u2", "n2", NoneVal, NoneVal, NoneVal) EXCEPT !.hasStatus = FALSE] }

Pods == WellFormedPods \cup MalformedPods

EventTypes == {"ADDED", "MODIFIED", "DELETED", "BOOKMARK"}

Events == [type : EventTypes, object : Pods]

NoEvent == [type |-> NoneVal, object |-> MkPod(NoneVal, NoneVal, NoneVal, NoneVal, NoneVal)]

Listings == UNION { [1..n -> Pods] : n \in 0..MaxList }

(* --------------------------- pure functions --------------------------- *)

\* extract_pod_metadata raises (AttributeError) exactly when it reads
\* through a None metadata, spec or status
ExtractRaises(pod) == ~pod.hasMetadata \/ ~pod.hasSpec \/ ~pod.hasStatus

\* an extraction that takes the node's name for the pod's address
extract_pod_metadata_node(pod) ==
    [name |-> pod.name,
     namespace |-> pod.namespace,
     uid |-> pod.uid,
     labels |-> IF pod.labels = NoneVal THEN "{}" ELSE pod.labels,
     node_name |-> pod.node_name,
     phase |-> pod.phase,
     pod_ip |-> pod.node_name]

extract_pod_metadata(pod) ==
    [name |-> pod.name,
     namespace |-> pod.namespace,
     uid |-> pod.uid,
     labels |-> IF pod.labels = NoneVal THEN "{}" ELSE pod.labels,
     node_name |-> pod.node_name,
     phase |-> pod.phase,
     pod_ip |-> pod.pod_ip]

\* pod_map[k] = v
DictSet(d, k, v) == [x \in DOMAIN d \cup {k} |-> IF x = k THEN v ELSE d[x]]

\* del pod_map[k]
DictDel(d, k) == [x \in DOMAIN d \ {k} |-> d[x]]

EmptyDict == [x \in {} |-> NoEvent]

(* ------------------------------- state -------------------------------- *)

Watcher == "watcher"
Unlocked == "unlocked"

\* request-handling threads of the Flask server
Clients == {"c1"}

NoRequest == [handler |-> NoneVal, arg |-> NoneVal]
NoResponse == [status |-> 0, body |-> [none |-> NoneVal]]

\* values of request.args.get(...): absent, empty, or a string
IpArgs == {NoneVal, "", A1, A2}
NamespaceArgs == {NoneVal, "", "n1", "n2"}

VARIABLES
    pod_map,        \* main.py:25, address -> metadata record
    pod_map_lock,   \* main.py:26, Unlocked or the thread that holds it
    pc,             \* position of watch_pods
    pod_list,       \* result of the listing call (items)
    idx,            \* position of the bootstrap for loop in pod_list
    event,          \* the event being processed, or the last one processed
    listCalls,      \* number of one-shot listing calls made (line 94)
    opened,         \* a subscription has been opened before
    waited,         \* seconds slept since the last subscription ended
                    \* (0 while none has ended)
    lastOp,         \* history: address -> last applied operation on it
    stable,         \* history: pod_map when the watcher last left its
                    \* lock-guarded section
    gone,           \* platform: uids of the resources deleted while no
                    \* subscription was open (their DELETED event is lost)
    cpc,            \* position of each request thread
    req,            \* the request each thread is serving
    resp,           \* the response each thread has produced
    written         \* history: pod_map was written since the thread's
                    \* request first read it

wvars == <<pod_map, pod_map_lock, pc, pod_list, idx, event, listCalls,
           opened, waited, lastOp, stable, gone>>

cvars == <<cpc, req, resp, written>>

vars == <<pod_map, pod_map_lock, pc, pod_list, idx, event, listCalls,
          opened, waited, lastOp, stable, gone, cpc, req, resp, written>>

Init ==
    /\ pod_map = EmptyDict
    /\ pod_map_lock = Unlocked
    /\ pc = "list"
    /\ pod_list = << >>
    /\ idx = 0
    /\ event = NoEvent
    /\ listCalls = 0
    /\ opened = FALSE
    /\ waited = 0
    /\ lastOp = EmptyDict
    /\ stable = EmptyDict
    /\ gone = {}
    /\ cpc = [c \in Clients |-> "idle"]
    /\ req = [c \in Clients |-> NoRequest]
    /\ resp = [c \in Clients |-> NoResponse]
    /\ written = [c \in Clients |-> FALSE]

(* ---------------------------- watch_pods ------------------------------ *)

\* history: a write to pod_map is noted for every request that has read
\* pod_map and has not yet returned
MarkWritten ==
    [c \in Clients |-> IF cpc[c] \in {"ready_200", "done"} THEN TRUE ELSE written[c]]

\* history records: the operation an item or event carried for its address
Upsert(pod) == [kind |-> "upsert", object |-> pod]
Remove(pod) == [kind |-> "remove", object |-> pod]

\* a test for None alone, which lets the empty address through
IndexableNotNone(pod_ip) == pod_ip # NoneVal

\* lines 97 and 115: if pod_ip
Indexable(pod_ip) == Truthy(pod_ip)

\* an insert that keeps the record already stored at the address
UpsertEntryKeepFirst(d, pod) ==
    IF pod.pod_ip \in DOMAIN d THEN d ELSE DictSet(d, pod.pod_ip, extract_pod_metadata(pod))

\* lines 98 and 116: pod_map[pod_ip] = extract_pod_metadata(pod)
UpsertEntry(d, pod) == DictSet(d, pod.pod_ip, extract_pod_metadata(pod))

\* lines 119-120: if pod_ip in pod_map: del pod_map[pod_ip]
RemoveEntry(d, pod_ip) == IF pod_ip \in DOMAIN d THEN DictDel(d, pod_ip) ELSE d

\* a removal guarded by the address alone
RemovableAnyAddress(d, pod_ip) == Indexable(pod_ip)

\* line 119: if pod_ip and pod_ip in pod_map
Removable(d, pod_ip) == Indexable(pod_ip) /\ pod_ip \in DOMAIN d

\* line 120: del pod_map[pod_ip] raises KeyError for a key that is absent
DelRaises(d, pod_ip) == pod_ip \notin DOMAIN d

\* a lock taken and released by hand, still held when the body raises
HeldAfterRaise == Watcher

\* lines 95 and 113: the with statement releases the lock when its body raises
LockAfterRaise == Unlocked

\* line 94: the listing call returns
ListPods ==
    /\ pc = "list"
    /\ \E items \in Listings : pod_list' = items
    /\ listCalls' = listCalls + 1
    /\ pc' = "boot_lock"
    /\ UNCHANGED <<pod_map, pod_map_lock, idx, event, opened, waited, lastOp, stable, gone, cpc, req, resp, written>>

\* line 94: the listing call raises; lines 100-101 catch it
ListRaises ==
    /\ pc = "list"
    /\ listCalls' = listCalls + 1
    /\ pc' = "boot_except"
    /\ UNCHANGED <<pod_map, pod_map_lock, pod_list, idx, event, opened, waited, lastOp, stable, gone, cpc, req, resp, written>>

\* line 95: with pod_map_lock (enter)
BootAcquire ==
    /\ pc = "boot_lock"
    /\ pod_map_lock = Unlocked
    /\ pod_map_lock' = Watcher
    /\ idx' = 1
    /\ pc' = "boot_iter"
    /\ UNCHANGED <<pod_map, pod_list, event, listCalls, opened, waited, lastOp, stable, gone, cpc, req, resp, written>>

\* lines 96-98: one iteration of the for loop, inside the with block.  An
\* exception leaves the with block (releasing the lock) and the try block.
BootItem ==
    /\ pc = "boot_iter"
    /\ idx <= Len(pod_list)
    /\ LET pod == pod_list[idx] IN
         IF ~pod.hasStatus \/ (Indexable(pod.pod_ip) /\ ExtractRaises(pod))
         THEN /\ pod_map_lock' = LockAfterRaise
              /\ pc' = "boot_except"
              /\ stable' = pod_map
              /\ UNCHANGED <<pod_map, idx, lastOp, written>>
         ELSE /\ IF Indexable(pod.pod_ip)
                 THEN /\ pod_map' = UpsertEntry(pod_map, pod)
                      /\ lastOp' = DictSet(lastOp, pod.pod_ip, Upsert(pod))
                      /\ written' = MarkWritten
                 ELSE UNCHANGED <<pod_map, lastOp, written>>
              /\ idx' = idx + 1
              /\ UNCHANGED <<pod_map_lock, pc, stable>>
    /\ UNCHANGED <<pod_list, event, listCalls, opened, waited, gone, cpc, req, resp>>

\* line 96 exhausted: leave the with block
BootRelease ==
    /\ pc = "boot_iter"
    /\ idx > Len(pod_list)
    /\ pod_map_lock' = Unlocked
    /\ stable' = pod_map
    /\ pc' = "boot_done"
    /\ UNCHANGED <<pod_map, pod_list, idx, event, listCalls, opened, waited, lastOp, gone, cpc, req, resp, written>>

\* a failed bootstrap that is tried again from the listing call
BootLogRetry ==
    /\ pc \in {"boot_done", "boot_except"}
    /\ pc' = IF pc = "boot_except" THEN "list" ELSE "open"
    /\ pod_list' = << >>
    /\ idx' = 0
    /\ UNCHANGED <<pod_map, pod_map_lock, event, listCalls, opened, waited, lastOp, stable, gone, cpc, req, resp, written>>

\* line 99 (after a complete pass) or lines 100-101 (after an exception):
\* log and fall through to the watch loop
BootLog ==
    /\ pc \in {"boot_done", "boot_except"}
    /\ pc' = "open"
    /\ pod_list' = << >>
    /\ idx' = 0
    /\ UNCHANGED <<pod_map, pod_map_lock, event, listCalls, opened, waited, lastOp, stable, gone, cpc, req, resp, written>>

\* line 106: w.stream(...) opens a subscription
OpenStream ==
    /\ pc = "open"
    /\ pc' = "stream"
    /\ opened' = TRUE
    /\ UNCHANGED <<pod_map, pod_map_lock, pod_list, idx, event, listCalls, waited, lastOp, stable, gone, cpc, req, resp, written>>

\* line 106: the subscription yields its next event, one of the set E.  A
\* subscription opened by a new call of w.stream starts from the platform's
\* current state: it reports nothing about a resource that is gone.
NextEventFrom(E) ==
    /\ pc = "stream"
    /\ \E e \in E :
         /\ e.object.uid \notin gone
         /\ event' = e
    /\ pc' = "event"
    /\ UNCHANGED <<pod_map, pod_map_lock, pod_list, idx, listCalls, opened, waited, lastOp, stable, gone, cpc, req, resp, written>>

\* line 106: the subscription yields its next event
NextEvent == NextEventFrom(Events)

\* line 106: the subscription raises (network error, API error, bad payload)
StreamRaises ==
    /\ pc = "stream"
    /\ pc' = "except"
    /\ waited' = 0
    /\ UNCHANGED <<pod_map, pod_map_lock, pod_list, idx, event, listCalls, opened, lastOp, stable, gone, cpc, req, resp, written>>

\* line 106: the subscription ends without raising (the server closed the
\* watch); the for loop is over and while True starts its next iteration
StreamEnds ==
    /\ pc = "stream"
    /\ pc' = "open"
    /\ waited' = 0
    /\ UNCHANGED <<pod_map, pod_map_lock, pod_list, idx, event, listCalls, opened, lastOp, stable, gone, cpc, req, resp, written>>

\* lines 107-111: read the event's fields, before the lock is taken
ReadEvent ==
    /\ pc = "event"
    /\ IF ~event.object.hasStatus \/ ~event.object.hasMetadata
       THEN pc' = "except" /\ waited' = 0
       ELSE pc' = "ev_lock" /\ UNCHANGED waited
    /\ UNCHANGED <<pod_map, pod_map_lock, pod_list, idx, event, listCalls, opened, lastOp, stable, gone, cpc, req, resp, written>>

\* line 113: with pod_map_lock (enter)
EventAcquire ==
    /\ pc = "ev_lock"
    /\ pod_map_lock = Unlocked
    /\ pod_map_lock' = Watcher
    /\ pc' = "ev_apply"
    /\ UNCHANGED <<pod_map, pod_list, idx, event, listCalls, opened, waited, lastOp, stable, gone, cpc, req, resp, written>>

\* lines 114-121 and the end of the with block.  An exception raised by
\* extract_pod_metadata leaves the with block, the for loop and the try block.
ApplyEvent ==
    /\ pc = "ev_apply"
    /\ LET event_type == event.type
           pod == event.object
           pod_ip == pod.pod_ip
           Raise == /\ pc' = "except"
                    /\ waited' = 0
                    /\ pod_map_lock' = LockAfterRaise
                    /\ UNCHANGED <<pod_map, lastOp, written>>
           Skip == /\ pc' = "stream"
                   /\ pod_map_lock' = Unlocked
                   /\ UNCHANGED <<pod_map, written, waited>> IN
         IF event_type \in {"ADDED", "MODIFIED"}
         THEN IF Indexable(pod_ip)
              THEN IF ExtractRaises(pod)
                   THEN Raise
                   ELSE /\ pod_map' = UpsertEntry(pod_map, pod)
                        /\ lastOp' = DictSet(lastOp, pod_ip, Upsert(pod))
                        /\ written' = MarkWritten
                        /\ pc' = "stream"
                        /\ pod_map_lock' = Unlocked
                        /\ UNCHANGED waited
              ELSE Skip /\ UNCHANGED lastOp
         ELSE IF event_type = "DELETED"
              THEN IF Removable(pod_map, pod_ip)
                   THEN IF DelRaises(pod_map, pod_ip)
                        THEN Raise
                        ELSE /\ pod_map' = RemoveEntry(pod_map, pod_ip)
                             /\ lastOp' = DictSet(lastOp, pod_ip, Remove(pod))
                             /\ written' = MarkWritten
                             /\ pc' = "stream"
                             /\ pod_map_lock' = Unlocked
                             /\ UNCHANGED waited
                   ELSE /\ Skip
                        /\ lastOp' = IF Truthy(pod_ip)
                                      THEN DictSet(lastOp, pod_ip, Remove(pod))
                                      ELSE lastOp
              ELSE Skip /\ UNCHANGED lastOp
    /\ stable' = pod_map'
    /\ UNCHANGED <<pod_list, idx, event, listCalls, opened, gone, cpc, req, resp>>

\* an except branch that logs and re-raises, ending the thread
LogErrorReraise ==
    /\ pc = "except"
    /\ pc' = "exited"
    /\ UNCHANGED <<pod_map, pod_map_lock, pod_list, idx, event, listCalls, opened, waited, lastOp, stable, gone, cpc, req, resp, written>>

\* lines 123-126: the except branch of the watch loop
LogError ==
    /\ pc = "except"
    /\ pc' = "sleep"
    /\ UNCHANGED <<pod_map, pod_map_lock, pod_list, idx, event, listCalls, opened, waited, lastOp, stable, gone, cpc, req, resp, written>>

\* a retry that starts over from the initial listing
SleepRelist ==
    /\ pc = "sleep"
    /\ waited' = BackoffSeconds
    /\ pc' = "list"
    /\ UNCHANGED <<pod_map, pod_map_lock, pod_list, idx, event, listCalls, opened, lastOp, stable, gone, cpc, req, resp, written>>

\* line 127: time.sleep(5), then while True starts its next iteration
Sleep ==
    /\ pc = "sleep"
    /\ waited' = BackoffSeconds
    /\ pc' = "open"
    /\ UNCHANGED <<pod_map, pod_map_lock, pod_list, idx, event, listCalls, opened, lastOp, stable, gone, cpc, req, resp, written>>

WatcherNext ==
    \/ ListPods
    \/ ListRaises
    \/ BootAcquire
    \/ BootItem
    \/ BootRelease
    \/ BootLog
    \/ OpenStream
    \/ NextEvent
    \/ StreamRaises
    \/ StreamEnds
    \/ ReadEvent
    \/ EventAcquire
    \/ ApplyEvent
    \/ LogError
    \/ Sleep

(* ------------------------------ platform ------------------------------ *)

Uids == {"u1", "u2"}

\* While no subscription is open, the platform deletes an indexed resource;
\* no subscription delivers the DELETED event.
PlatformDelete(u) ==
    /\ opened
    /\ pc \in {"except", "sleep", "open"}
    /\ u \notin gone
    /\ \E a \in DOMAIN pod_map : pod_map[a].uid = u
    /\ gone' = gone \cup {u}
    /\ UNCHANGED <<pod_map, pod_map_lock, pc, pod_list, idx, event, listCalls, opened, waited, lastOp, stable>>
    /\ UNCHANGED cvars

(* -------------------------- request handlers -------------------------- *)

\* len(pod_map)
DictLen(d) == Cardinality(DOMAIN d)

Respond(c, status, body) ==
    /\ resp' = [resp EXCEPT ![c] = [status |-> status, body |-> body]]
    /\ cpc' = [cpc EXCEPT ![c] = "done"]

\* lines 130-133: GET /health
Health(c) ==
    /\ cpc[c] = "idle"
    /\ req' = [req EXCEPT ![c] = [handler |-> "health", arg |-> NoneVal]]
    /\ Respond(c, 200, [status |-> "healthy", pod_count |-> DictLen(pod_map)])
    /\ written' = [written EXCEPT ![c] = FALSE]
    /\ UNCHANGED wvars

\* a readiness test that is off by one
ReadyCheckOffByOne(c) ==
    /\ cpc[c] = "idle"
    /\ req' = [req EXCEPT ![c] = [handler |-> "ready", arg |-> NoneVal]]
    /\ IF DictLen(pod_map) > 1
       THEN /\ cpc' = [cpc EXCEPT ![c] = "ready_200"]
            /\ UNCHANGED resp
       ELSE Respond(c, 503, [status |-> "not ready", pod_count |-> 0])
    /\ written' = [written EXCEPT ![c] = FALSE]
    /\ UNCHANGED wvars

\* line 139: GET /ready, the test len(pod_map) > 0; line 142 when it fails
ReadyCheck(c) ==
    /\ cpc[c] = "idle"
    /\ req' = [req EXCEPT ![c] = [handler |-> "ready", arg |-> NoneVal]]
    /\ IF DictLen(pod_map) > 0
       THEN /\ cpc' = [cpc EXCEPT ![c] = "ready_200"]
            /\ UNCHANGED resp
       ELSE Respond(c, 503, [status |-> "not ready", pod_count |-> 0])
    /\ written' = [written EXCEPT ![c] = FALSE]
    /\ UNCHANGED wvars

\* line 140: GET /ready, the 200 response reads len(pod_map) again
ReadyRespond(c) ==
    /\ cpc[c] = "ready_200"
    /\ Respond(c, 200, [status |-> "ready", pod_count |-> DictLen(pod_map)])
    /\ UNCHANGED <<req, written>>
    /\ UNCHANGED wvars

\* a parameter check that rejects a missing ip but not an empty one
PodRequestNoneOnly(c) ==
    /\ cpc[c] = "idle"
    /\ \E ip \in IpArgs :
         /\ req' = [req EXCEPT ![c] = [handler |-> "pod", arg |-> ip]]
         /\ IF ip = NoneVal
            THEN Respond(c, 400, [error |-> "IP parameter is required"])
            ELSE /\ cpc' = [cpc EXCEPT ![c] = "pod_lock"]
                 /\ UNCHANGED resp
    /\ written' = [written EXCEPT ![c] = FALSE]
    /\ UNCHANGED wvars

\* lines 148-151: GET /pod, the parameter check
PodRequest(c) ==
    /\ cpc[c] = "idle"
    /\ \E ip \in IpArgs :
         /\ req' = [req EXCEPT ![c] = [handler |-> "pod", arg |-> ip]]
         /\ IF ~Truthy(ip)
            THEN Respond(c, 400, [error |-> "IP parameter is required"])
            ELSE /\ cpc' = [cpc EXCEPT ![c] = "pod_lock"]
                 /\ UNCHANGED resp
    /\ written' = [written EXCEPT ![c] = FALSE]
    /\ UNCHANGED wvars

\* line 153: with pod_map_lock (enter)
PodAcquire(c) ==
    /\ cpc[c] = "pod_lock"
    /\ pod_map_lock = Unlocked
    /\ pod_map_lock' = c
    /\ cpc' = [cpc EXCEPT ![c] = "pod_cs"]
    /\ UNCHANGED <<pod_map, pc, pod_list, idx, event, listCalls, opened, waited, lastOp, stable, gone>>
    /\ UNCHANGED <<req, resp, written>>

\* lines 154-157: the lookup, and the return that leaves the with block
PodLookup(c) ==
    /\ cpc[c] = "pod_cs"
    /\ LET ip == req[c].arg IN
         IF ip \in DOMAIN pod_map
         THEN Respond(c, 200, pod_map[ip])
         ELSE Respond(c, 404, [error |-> <<"No pod found with IP", ip>>])
    /\ pod_map_lock' = Unlocked
    /\ written' = [written EXCEPT ![c] = FALSE]
    /\ UNCHANGED <<pod_map, pc, pod_list, idx, event, listCalls, opened, waited, lastOp, stable, gone>>
    /\ UNCHANGED req

\* line 163: GET /pods, reading the namespace parameter
PodsRequest(c) ==
    /\ cpc[c] = "idle"
    /\ \E namespace \in NamespaceArgs :
         req' = [req EXCEPT ![c] = [handler |-> "pods", arg |-> namespace]]
    /\ cpc' = [cpc EXCEPT ![c] = "pods_lock"]
    /\ written' = [written EXCEPT ![c] = FALSE]
    /\ UNCHANGED resp
    /\ UNCHANGED wvars

\* a handler that enters its section without waiting for the lock
PodsAcquireNoWait(c) ==
    /\ cpc[c] = "pods_lock"
    /\ cpc' = [cpc EXCEPT ![c] = "pods_cs"]
    /\ UNCHANGED <<pod_map, pod_map_lock, pc, pod_list, idx, event, listCalls, opened, waited, lastOp, stable, gone>>
    /\ UNCHANGED <<req, resp, written>>

\* line 165: with pod_map_lock (enter)
PodsAcquire(c) ==
    /\ cpc[c] = "pods_lock"
    /\ pod_map_lock = Unlocked
    /\ pod_map_lock' = c
    /\ cpc' = [cpc EXCEPT ![c] = "pods_cs"]
    /\ UNCHANGED <<pod_map, pc, pod_list, idx, event, listCalls, opened, waited, lastOp, stable, gone>>
    /\ UNCHANGED <<req, resp, written>>

\* lines 167-168: the entries of d whose record has the namespace
FilterNamespace(d, namespace) ==
    [ip \in {k \in DOMAIN d : d[k].namespace = namespace} |-> d[ip]]

\* lines 166-171: the copy, and the return that leaves the with block
PodsSnapshot(c) ==
    /\ cpc[c] = "pods_cs"
    /\ LET namespace == req[c].arg IN
         IF Truthy(namespace)
         THEN LET filtered_pods == FilterNamespace(pod_map, namespace) IN
                Respond(c, 200, [pods |-> filtered_pods, count |-> DictLen(filtered_pods)])
         ELSE Respond(c, 200, [pods |-> pod_map, count |-> DictLen(pod_map)])
    /\ pod_map_lock' = Unlocked
    /\ written' = [written EXCEPT ![c] = FALSE]
    /\ UNCHANGED <<pod_map, pc, pod_list, idx, event, listCalls, opened, waited, lastOp, stable, gone>>
    /\ UNCHANGED req

\* the response is sent and the thread takes the next request
Return(c) ==
    /\ cpc[c] = "done"
    /\ cpc' = [cpc EXCEPT ![c] = "idle"]
    /\ req' = [req EXCEPT ![c] = NoRequest]
    /\ resp' = [resp EXCEPT ![c] = NoResponse]
    /\ written' = [written EXCEPT ![c] = FALSE]
    /\ UNCHANGED wvars

Next ==
    \/ WatcherNext
    \/ \E c \in Clients :
         \/ Health(c)
         \/ ReadyCheck(c)
         \/ ReadyRespond(c)
         \/ PodRequest(c)
         \/ PodAcquire(c)
         \/ PodLookup(c)
         \/ PodsRequest(c)
         \/ PodsAcquire(c)
         \/ PodsSnapshot(c)
         \/ Return(c)

Spec == Init /\ [][Next]_vars

\* The watcher thread is scheduled: a handled exception is logged, the
\* sleep returns, and the next statement runs.  None of these steps waits
\* for the lock or for the platform.
WatcherFairSpec ==
    /\ Init /\ [][WatcherNext]_vars
    /\ WF_vars(BootLog)
    /\ WF_vars(LogError)
    /\ WF_vars(Sleep)
    /\ WF_vars(OpenStream)

\* the watcher and a platform that deletes resources during disconnects
StaleNext ==
    \/ WatcherNext
    \/ \E u \in Uids : PlatformDelete(u)

\* The watcher thread is scheduled, and the platform goes on delivering
\* events on an open subscription.
StaleFairSpec ==
    /\ Init /\ [][StaleNext]_vars
    /\ WF_vars(BootLog)
    /\ WF_vars(LogError)
    /\ WF_vars(Sleep)
    /\ WF_vars(OpenStream)
    /\ WF_vars(ReadEvent)
    /\ WF_vars(EventAcquire)
    /\ WF_vars(ApplyEvent)
    /\ SF_vars(NextEvent)

\* Events that take each way through the lock-guarded section of lines
\* 113-121: an upsert, an extraction that raises inside it, a removal, and
\* an event that raises before the lock is asked for.
LockEvents ==
    { [type |-> "ADDED", object |-> MkPod("u1", "n1", A1, "Pending", NoneVal)],
      [type |-> "MODIFIED",
       object |-> [MkPod("u2", "n2", A2, "Running", NoneVal) EXCEPT !.hasSpec = FALSE]],
      [type |-> "DELETED", object |-> MkPod("u1", "n1", A1, "Pending", NoneVal)],
      [type |-> "BOOKMARK",
       object |-> [MkPod("u2", "n2", NoneVal, NoneVal, NoneVal) EXCEPT !.hasStatus = FALSE]] }

\* line 106, with the events of LockEvents
NextLockEvent == NextEventFrom(LockEvents)

\* the watcher and the handlers that take pod_map_lock
LockNext ==
    \/ ListPods
    \/ ListRaises
    \/ BootAcquire
    \/ BootItem
    \/ BootRelease
    \/ BootLog
    \/ OpenStream
    \/ NextLockEvent
    \/ StreamRaises
    \/ StreamEnds
    \/ ReadEvent
    \/ EventAcquire
    \/ ApplyEvent
    \/ LogError
    \/ Sleep
    \/ \E c \in Clients :
         \/ PodRequest(c)
         \/ PodAcquire(c)
         \/ PodLookup(c)
         \/ PodsRequest(c)
         \/ PodsAcquire(c)
         \/ PodsSnapshot(c)
         \/ Return(c)

\* The watcher runs its lock-guarded section to the end, a handler that
\* holds the lock runs to its return, and a handler blocked on the lock
\* gets it at some release: between two acquisitions the watcher waits for
\* the platform with the lock free.
LockFairSpec ==
    /\ Init /\ [][LockNext]_vars
    /\ WF_vars(BootItem \/ BootRelease \/ ApplyEvent)
    /\ \A c \in Clients :
         /\ SF_vars(PodAcquire(c) \/ PodsAcquire(c))
         /\ WF_vars(PodLookup(c) \/ PodsSnapshot(c))

(* ------------------------------ claims -------------------------------- *)

Addresses == {A1, A2}

\* C1: after any sequence of applied items and events, each address maps to
\* the record extracted from the last upsert (listed item, ADDED or MODIFIED)
\* that carried it, and is absent when no upsert carried it or a later
\* DELETED event carried it.
C1_LastAppliedWins ==
    \A a \in DOMAIN lastOp \cup DOMAIN pod_map \cup Addresses :
        IF a \in DOMAIN lastOp /\ lastOp[a].kind = "upsert"
        THEN a \in DOMAIN pod_map /\ pod_map[a] = extract_pod_metadata(lastOp[a].object)
        ELSE a \notin DOMAIN pod_map

\* a second resource's MODIFIED event has replaced the record at A1, and A2
\* has been removed by a DELETED event
C1_Witness ==
    /\ pc = "stream"
    /\ event.type = "MODIFIED"
    /\ event.object.pod_ip = A1
    /\ A1 \in DOMAIN pod_map
    /\ pod_map[A1].uid = "u2"
    /\ A2 \in DOMAIN lastOp
    /\ lastOp[A2].kind = "remove"
    /\ A2 \notin DOMAIN pod_map

AddresslessStep ==
    \/ /\ pc = "boot_iter"
       /\ idx <= Len(pod_list)
       /\ pod_list[idx].pod_ip \in {NoneVal, ""}
    \/ /\ pc = "ev_apply"
       /\ event.type \in {"ADDED", "MODIFIED"}
       /\ event.object.pod_ip \in {NoneVal, ""}

\* C2: every key of the index is a defined, non-empty address, and a listed
\* item or an ADDED/MODIFIED event without an address leaves the index as
\* it was.
C2_NoAddressNoEntry ==
    /\ [](\A k \in DOMAIN pod_map : k \in Addresses)
    /\ [][AddresslessStep => pod_map' = pod_map]_vars

\* an ADDED event without an address has been processed over a non-empty index
C2_Witness ==
    /\ pc = "stream"
    /\ event.type = "ADDED"
    /\ event.object.hasStatus /\ event.object.hasMetadata /\ event.object.hasSpec
    /\ event.object.pod_ip \in {NoneVal, ""}
    /\ pod_map # EmptyDict

\* C3: after bootstrap every well-formed addressed item of the listing has
\* an entry in the index, also when the listing holds a malformed item.
C3_MalformedItemSkipped ==
    pc \in {"boot_done", "boot_except"} =>
        \A i \in 1..Len(pod_list) :
            (~ExtractRaises(pod_list[i]) /\ Truthy(pod_list[i].pod_ip))
                => pod_list[i].pod_ip \in DOMAIN pod_map

\* C4: an event whose metadata extraction fails is skipped: the index is
\* unchanged and the loop goes on to the next event of the same subscription.
C4_ExtractionFailureSkipsEvent ==
    [][(/\ pc = "ev_apply"
        /\ pc' # pc
        /\ event.type \in {"ADDED", "MODIFIED"}
        /\ Truthy(event.object.pod_ip)
        /\ ExtractRaises(event.object))
       => (pod_map' = pod_map /\ pc' = "stream")]_vars

PcValues ==
    {"list", "boot_lock", "boot_iter", "boot_done", "boot_except", "open",
     "stream", "event", "ev_lock", "ev_apply", "except", "sleep"}

\* C5: watch_pods never leaves its loop, and after a failure in bootstrap or
\* in streaming it eventually has a subscription open again.
C5_AlwaysResubscribes ==
    /\ [](pc \in PcValues)
    /\ (pc \in {"boot_except", "except"}) ~> (pc = "stream")

\* the subscription is open again after a failure and a backoff
C5_Witness ==
    /\ pc = "stream"
    /\ waited = BackoffSeconds

\* C6: the listing call is made once, and the index changes only where a
\* listed item or an event is applied: not while the failure is handled, the
\* backoff is waited out, the subscription is re-opened or an event awaited.
C6_ReconnectKeepsIndex ==
    /\ [](listCalls = IF pc = "list" THEN 0 ELSE 1)
    /\ [][(pc \in {"except", "sleep", "open", "stream", "event", "ev_lock"})
            => (pod_map' = pod_map)]_vars

\* the subscription was re-opened after a backoff with the entries retained
C6_Witness ==
    /\ pc = "stream"
    /\ waited = BackoffSeconds
    /\ DictLen(pod_map) = 2
    /\ listCalls = 1

\* C7: the subscription is re-opened only after the backoff interval has
\* been waited out.
C7_BackoffBeforeReopen ==
    (pc = "open" /\ opened) => waited = BackoffSeconds

\* C8: /pod answers 400 exactly when ip is missing or empty; otherwise 200
\* with the record of the last applied upsert to the address, or 404 naming
\* the address when no upsert or a later removal was the last operation.
C8_PodLookup ==
    \A c \in Clients :
        (cpc[c] = "done" /\ req[c].handler = "pod") =>
            LET a == req[c].arg IN
              IF a \in {NoneVal, ""}
              THEN resp[c] = [status |-> 400, body |-> [error |-> "IP parameter is required"]]
              ELSE /\ resp[c].status \in {200, 404}
                   /\ ~written[c] =>
                        /\ resp[c].status = 200 <=> a \in DOMAIN pod_map
                        /\ IF a \in DOMAIN lastOp /\ lastOp[a].kind = "upsert"
                           THEN resp[c] = [status |-> 200,
                                           body |-> extract_pod_metadata(lastOp[a].object)]
                           ELSE resp[c] = [status |-> 404,
                                           body |-> [error |-> <<"No pod found with IP", a>>]]

\* a lookup of an address removed by a DELETED event answers 404
C8_Witness ==
    \E c \in Clients :
        /\ cpc[c] = "done"
        /\ req[c].handler = "pod"
        /\ req[c].arg = A1
        /\ ~written[c]
        /\ resp[c].status = 404
        /\ A1 \in DOMAIN lastOp
        /\ lastOp[A1].kind = "remove"
        /\ event.type = "DELETED"

\* C9: with no write since the request read the index, /ready answers 503
\* with pod_count 0 when the index is empty and 200 with its size otherwise.
C9_Ready ==
    \A c \in Clients :
        (cpc[c] = "done" /\ req[c].handler = "ready" /\ ~written[c]) =>
            IF pod_map = EmptyDict
            THEN resp[c] = [status |-> 503, body |-> [status |-> "not ready", pod_count |-> 0]]
            ELSE resp[c] = [status |-> 200,
                            body |-> [status |-> "ready",
                                      pod_count |-> Cardinality(DOMAIN pod_map)]]

\* /ready answers 200 once the first upsert has been applied
C9_Witness ==
    \E c \in Clients :
        /\ cpc[c] = "done"
        /\ req[c].handler = "ready"
        /\ ~written[c]
        /\ resp[c].status = 200
        /\ resp[c].body.pod_count = 1
        /\ Cardinality(DOMAIN lastOp) = 1

InLockedSection(t) ==
    IF t = Watcher THEN pc \in {"boot_iter", "ev_apply"}
    ELSE cpc[t] \in {"pod_cs", "pods_cs"}

\* C10: a /pods response holds the entries (of the requested namespace, when
\* one is given) that the index had when the watcher was last outside its
\* lock-guarded section, its count is the number of entries returned, and no
\* two threads are inside the lock-guarded section together.
C10_SnapshotConsistent ==
    /\ \A c \in Clients :
         (cpc[c] = "done" /\ req[c].handler = "pods") =>
            LET namespace == req[c].arg
                pods == resp[c].body.pods IN
              /\ resp[c].status = 200
              /\ resp[c].body.count = Cardinality(DOMAIN pods)
              /\ ~written[c] =>
                   /\ DOMAIN pods =
                        {a \in DOMAIN stable :
                            namespace \in {NoneVal, ""} \/ stable[a].namespace = namespace}
                   /\ \A a \in DOMAIN pods : pods[a] = stable[a]
    /\ \A t, u \in Clients \cup {Watcher} :
         (InLockedSection(t) /\ InLockedSection(u)) => t = u
    /\ \A t \in Clients \cup {Watcher} : InLockedSection(t) => pod_map_lock = t

\* a namespace-filtered listing returned one of the two entries of the index
C10_Witness ==
    \E c \in Clients :
        /\ cpc[c] = "done"
        /\ req[c].handler = "pods"
        /\ req[c].arg = "n1"
        /\ ~written[c]
        /\ resp[c].body.count = 1
        /\ Cardinality(DOMAIN pod_map) = 2

\* a DELETED event that has passed the reads of lines 107-111
DeletedEvent ==
    /\ event.type = "DELETED"
    /\ event.object.hasStatus
    /\ event.object.hasMetadata

\* C11: a DELETED event whose address is not a key of the index, or that
\* carries no address, leaves the index unchanged and raises nothing (the
\* loop goes on to the next event); and once a DELETED event has been
\* applied its address is absent, so applying it again changes nothing.
C11_RemoveIdempotent ==
    /\ [][(pc = "ev_apply" /\ DeletedEvent /\ event.object.pod_ip \notin DOMAIN pod_map)
            => (pod_map' = pod_map /\ pc' \in {"ev_apply", "stream"})]_vars
    /\ []((pc = "stream" /\ DeletedEvent)
            => /\ event.object.pod_ip \notin DOMAIN pod_map
               /\ RemoveEntry(pod_map, event.object.pod_ip) = pod_map)

\* a DELETED event without an address has been processed over a non-empty
\* index and the loop awaits the next event with no backoff
C11_Witness ==
    /\ pc = "stream"
    /\ DeletedEvent
    /\ event.object.pod_ip = NoneVal
    /\ pod_map # EmptyDict
    /\ waited = 0

\* C12: an event of an unrecognised kind leaves the index unchanged and
\* raises nothing, whatever object it carries.
C12_UnknownKindIgnored ==
    [][(pc \in {"event", "ev_lock", "ev_apply"}
        /\ event.type \notin {"ADDED", "MODIFIED", "DELETED"})
       => (pod_map' = pod_map /\ pc' # "except")]_vars

\* entries written since the watcher took the lock it now holds
WritesInSection ==
    IF pc = "boot_iter"
    THEN Cardinality({i \in 1..(idx - 1) : Indexable(pod_list[i].pod_ip)})
    ELSE 0

\* C13: between an acquisition of pod_map_lock by the watcher and its
\* release, at most one entry is written or deleted.
C13_OneWritePerHold == WritesInSection <= 1

RECURSIVE Replayed(_, _)
\* the index built from the first n items of a listing: each addressed item
\* in turn takes its address
Replayed(items, n) ==
    IF n = 0 THEN EmptyDict
    ELSE LET before == Replayed(items, n - 1)
             pod == items[n] IN
           IF pod.pod_ip \in Addresses
           THEN [a \in DOMAIN before \cup {pod.pod_ip} |->
                    IF a = pod.pod_ip THEN extract_pod_metadata(pod) ELSE before[a]]
           ELSE before

\* C15: when bootstrap fails the index is left as it was at the failure:
\* empty if the listing call failed, the entries of the addressed items
\* before the failing one otherwise; and the loop goes on to open the
\* subscription with that index.
C15_BootstrapFailureKeepsPartial ==
    /\ []((pc = "boot_except") =>
            pod_map = (IF pod_list = << >> THEN EmptyDict ELSE Replayed(pod_list, idx - 1)))
    /\ [][(pc \in {"boot_except", "open"})
            => (pod_map' = pod_map /\ pc' \in {pc, "open", "stream"})]_vars

\* bootstrap failed at the second of two items and kept the first
C15_Witness ==
    /\ pc = "boot_except"
    /\ Len(pod_list) = 2
    /\ idx = 2
    /\ DOMAIN pod_map = {pod_list[1].pod_ip}

\* C16: an entry of a resource that was deleted while the subscription was
\* down is dropped once the subscription is open again: the index
\* eventually holds no entry of that resource.
C16_StalenessBounded ==
    \A u \in Uids :
        (u \in gone /\ pc = "stream") ~> (\A a \in DOMAIN pod_map : pod_map[a].uid # u)

\* C17: a 200 response of /ready reports a pod_count of at least 1, and a
\* /health or /ready response never reports the size of an index that a
\* bootstrap pass in progress has partly filled.
C17_ReadyCountConsistent ==
    \A c \in Clients :
        /\ (cpc[c] = "done" /\ req[c].handler = "ready" /\ resp[c].status = 200)
              => resp[c].body.pod_count >= 1
        /\ (cpc[c] = "done" /\ req[c].handler \in {"health", "ready"} /\ ~written[c])
              => resp[c].body.pod_count = Cardinality(DOMAIN stable)

\* C18: a DELETED event leaves in place a record that belongs to another
\* resource than the one deleted.
C18_DeleteChecksOwner ==
    [][(/\ pc = "ev_apply"
        /\ event.type = "DELETED"
        /\ event.object.pod_ip \in DOMAIN pod_map
        /\ pod_map[event.object.pod_ip].uid # event.object.uid)
       => (pod_map' = pod_map)]_vars

\* C19: no two entries of the index hold records of the same resource.
C19_OneEntryPerUid ==
    \A a, b \in DOMAIN pod_map : (pod_map[a].uid = pod_map[b].uid) => (a = b)

\* C20: every key of the index is the pod_ip of the record stored under it,
\* a 200 response of /pod carries a record whose pod_ip is the address asked
\* for, and every entry of a namespace-filtered /pods response has the
\* namespace asked for.
C20_KeyIsRecordAddress ==
    /\ \A a \in DOMAIN pod_map : pod_map[a].pod_ip = a
    /\ \A c \in Clients :
         /\ (cpc[c] = "done" /\ req[c].handler = "pod" /\ resp[c].status = 200)
               => resp[c].body.pod_ip = req[c].arg
         /\ (cpc[c] = "done" /\ req[c].handler = "pods" /\ req[c].arg \notin {NoneVal, ""})
               => \A a \in DOMAIN resp[c].body.pods :
                     /\ resp[c].body.pods[a].namespace = req[c].arg
                     /\ resp[c].body.pods[a].pod_ip = a

\* a namespace-filtered listing and a lookup have returned records
C20_Witness ==
    \E c \in Clients :
        /\ cpc[c] = "done"
        /\ req[c].handler = "pods"
        /\ req[c].arg = "n1"
        /\ DOMAIN resp[c].body.pods = {A1, A2}

====
